---- MODULE Spec2Model ----
(***************************************************************************)
(* error-repr: the generic error container Error<K> (src/src/error.rs),    *)
(* the kind trait family that parametrizes it (src/src/kind.rs) and the    *)
(* conversion protocol with the platform error type std::io::Error.        *)
(*                                                                         *)
(* One behaviour follows a container through its life: a constructor or a  *)
(* conversion builds it, the read-only operations inspect it any number of *)
(* times, and an extraction or a conversion consumes it; the platform      *)
(* error a conversion produced may be converted back, and so on.           *)
(***************************************************************************)
EXTENDS Integers, Sequences, FiniteSets, TLC

VARIABLES
    K,      \* the kind type parametrizing Error<K>: its trait implementations
    err,    \* Option<Error<K>>: the live container, None once moved out
    io,     \* Option<std::io::Error>: the live platform error
    ctor,   \* the constructor or conversion that built err
    res,    \* the operation last applied and what it returned
    built,  \* Option<Error<K>>: err as its constructor returned it
    orig,   \* Option<Error<K>>: the container the last consuming operation took
    src     \* Option<std::io::Error>: the platform error the last conversion took

vars == <<K, err, io, ctor, res, built, orig, src>>

----------------------------------------------------------------------------
(* Option<T> *)

None == <<>>
Some(v) == <<v>>
IsSome(o) == o # None
Unwrap(o) == o[1]

----------------------------------------------------------------------------
(* Inputs *)

\* RawOsError is i32 (lib.rs:29); the codes the model draws from it.
Codes == {-1, 2, 28}

\* &'static str messages handed to the *_with_message constructors.
Messages == {"disk full", "x"}

\* Box<dyn Error + Send + Sync> objects handed to the payload constructors:
\* a concrete type (what a downcast would recover) and its Display text.
StringError(m) == [type |-> "StringError", text |-> m]
Payloads == {[type |-> "ParseError", text |-> "bad digit"]}

\* The variants of std::io::ErrorKind the model uses.
IoKinds == {"NotFound", "StorageFull", "Other", "Uncategorized"}

----------------------------------------------------------------------------
(* The platform: std::io::Error, as error.rs uses it *)

\* std::sys::decode_error_kind on a unix target: ENOENT = 2, ENOSPC = 28.
decode_error_kind(code) ==
    CASE code = 2 -> "NotFound"
      [] code = 28 -> "StorageFull"
      [] OTHER -> "Uncategorized"

\* std::io::Error::from_raw_os_error
io_from_raw_os_error(code) == [repr |-> "Os", code |-> code]

\* std::io::Error::new(kind, error): always the Custom representation
io_new(k, error) == [repr |-> "Custom", kind |-> k, error |-> error]

\* std::io::Error::kind
io_kind(x) == IF x.repr = "Os" THEN decode_error_kind(x.code) ELSE x.kind

\* std::io::Error::raw_os_error
io_raw_os_error(x) == IF x.repr = "Os" THEN Some(x.code) ELSE None

\* std::io::Error::into_inner
io_into_inner(x) == IF x.repr = "Custom" THEN Some(x.error) ELSE None

\* std::sys::os::error_string, for the codes above
error_string(code) ==
    CASE code = 2 -> "No such file or directory"
      [] code = 28 -> "No space left on device"
      [] OTHER -> "Unknown error"

\* std::io::ErrorKind::description, which is the kind's Display text
io_kind_description(k) ==
    CASE k = "NotFound" -> "entity not found"
      [] k = "StorageFull" -> "no storage space"
      [] k = "Other" -> "other error"
      [] OTHER -> "uncategorized error"

\* Display of a RawOsError (i32): a sign and the decimal digits
Digits == <<"0", "1", "2", "3", "4", "5", "6", "7", "8", "9">>
RECURSIVE u32_fmt(_)
u32_fmt(n) ==
    IF n < 10 THEN Digits[n + 1] ELSE u32_fmt(n \div 10) \o Digits[(n % 10) + 1]
i32_fmt(n) == IF n < 0 THEN "-" \o u32_fmt(-n) ELSE u32_fmt(n)

\* Display of std::io::Error
io_fmt(x) ==
    CASE x.repr = "Os" ->
             error_string(x.code) \o " (os error " \o i32_fmt(x.code) \o ")"
      [] x.repr = "Custom" -> x.error.text
      [] x.repr = "SimpleMessage" -> x.message
      [] OTHER -> io_kind_description(x.kind)

\* The platform errors a caller can hold: every representation of
\* std::io::Error (Os, Simple, SimpleMessage, Custom).
IoErrors ==
    {io_from_raw_os_error(c) : c \in Codes}
    \cup {[repr |-> "Simple", kind |-> k] : k \in IoKinds}
    \cup {[repr |-> "SimpleMessage", kind |-> k, message |-> m] :
              k \in IoKinds, m \in Messages}
    \cup {io_new(k, p) : k \in IoKinds, p \in Payloads}

----------------------------------------------------------------------------
(* kind.rs: the kind trait family *)

\* impl ErrorKind / FromIoKind / IntoIoKind / FromRawOsError for
\* std::io::ErrorKind (kind.rs:46-73)
std_OTHER == "Other"
std_uncategorized == "Other"
std_from_io_error_kind(k) == k
std_into_io_error_kind(k) == k
std_from_raw_os_error(raw) == io_kind(io_from_raw_os_error(raw))

StdIoErrorKind ==
    [name |-> "std::io::ErrorKind",
     kinds |-> IoKinds,
     other |-> std_OTHER,
     uncategorized |-> std_uncategorized,
     from_raw_os_error |-> [c \in Codes |-> std_from_raw_os_error(c)],
     from_io_error_kind |-> [k \in IoKinds |-> std_from_io_error_kind(k)],
     into_io_error_kind |-> [k \in IoKinds |-> std_into_io_error_kind(k)],
     fmt |-> [k \in IoKinds |-> io_kind_description(k)]]

\* A downstream kind type: the traits put no constraint on the three
\* mappings (kind.rs:17-43 only document the expectation that they agree),
\* so every choice of them is an implementation the crate must work with.
UserKinds == {"Misc", "Hidden"}
UserKindFmt(k) == IF k = "Misc" THEN "miscellaneous" ELSE "uncategorized"
UserKindTypes ==
    {[name |-> "UserKind",
      kinds |-> UserKinds,
      other |-> "Misc",
      uncategorized |-> "Hidden",
      from_raw_os_error |-> fr,
      from_io_error_kind |-> fi,
      into_io_error_kind |-> ii,
      fmt |-> [k \in UserKinds |-> UserKindFmt(k)]] :
        fr \in [Codes -> UserKinds],
        fi \in [IoKinds -> UserKinds],
        ii \in [UserKinds -> IoKinds]}

KindTypes == {StdIoErrorKind} \cup UserKindTypes

----------------------------------------------------------------------------
(* error.rs: the container *)

\* enum ErrorPayload (error.rs:10-16)
Simple == [shape |-> "Simple"]
RawOsError(code) == [shape |-> "RawOsError", code |-> code]
Message(m) == [shape |-> "Message", msg |-> m]
Error(e) == [shape |-> "Error", error |-> e]

internal_new(k, payload) == [kind |-> k, payload |-> payload]

new_simple(k) == internal_new(k, Simple)
new_with_message(k, msg) == internal_new(k, Message(msg))
new(k, error) == internal_new(k, Error(error))

kind(e) == e.kind

raw_os_error(e) ==
    IF e.payload.shape = "RawOsError" THEN Some(e.payload.code) ELSE None

\* Faulty variant of into_error: a message is not lifted.
into_error_BoxedOnly(e) ==
    IF e.payload.shape = "Error" THEN Some(e.payload.error) ELSE None

into_error(e) ==
    CASE e.payload.shape = "Error" -> Some(e.payload.error)
      [] e.payload.shape = "Message" -> Some(StringError(e.payload.msg))
      [] OTHER -> None

\* Faulty variant of into_inner: a message is lifted, as into_error does.
into_inner_Lifting(e) ==
    CASE e.payload.shape = "Error" -> Some(e.payload.error)
      [] e.payload.shape = "Message" -> Some(StringError(e.payload.msg))
      [] OTHER -> None

into_inner(e) ==
    IF e.payload.shape = "Error" THEN Some(e.payload.error) ELSE None

\* Faulty variant of fmt: the raw code is appended like a message.
fmt_CodeAsMessage(T, e) ==
    T.fmt[e.kind] \o
        CASE e.payload.shape = "Simple" -> ""
          [] e.payload.shape = "RawOsError" -> ": " \o i32_fmt(e.payload.code)
          [] e.payload.shape = "Message" -> ": " \o e.payload.msg
          [] e.payload.shape = "Error" -> ": " \o e.payload.error.text

fmt(T, e) ==
    T.fmt[e.kind] \o
        CASE e.payload.shape = "Simple" -> ""
          [] e.payload.shape = "RawOsError" ->
                 " (raw os error " \o i32_fmt(e.payload.code) \o ")"
          [] e.payload.shape = "Message" -> ": " \o e.payload.msg
          [] e.payload.shape = "Error" -> ": " \o e.payload.error.text

other_simple(T) == internal_new(T.other, Simple)
other_with_message(T, msg) == internal_new(T.other, Message(msg))
other(T, error) == internal_new(T.other, Error(error))

uncategorized_simple(T) == internal_new(T.uncategorized, Simple)
uncategorized_with_message(T, msg) == internal_new(T.uncategorized, Message(msg))
uncategorized(T, error) == internal_new(T.uncategorized, Error(error))

\* Faulty variant of from_raw_os_error: the code is mapped to a kind and
\* then dropped.
from_raw_os_error_CodeDropped(T, error) ==
    internal_new(T.from_raw_os_error[error], Simple)

from_raw_os_error(T, error) ==
    internal_new(T.from_raw_os_error[error], RawOsError(error))

\* impl From<std::io::ErrorKind> for Error<K>
from_io_error_kind(T, k) == new_simple(T.from_io_error_kind[k])

\* Faulty variants of From<std::io::Error>: the inner payload is dropped;
\* the kind of a raw code comes from the raw-OS mapping; the raw code is
\* dropped.
from_io_error_NoInner(T, value) ==
    LET k == T.from_io_error_kind[io_kind(value)] IN
    IF IsSome(io_raw_os_error(value))
        THEN internal_new(k, RawOsError(Unwrap(io_raw_os_error(value))))
    ELSE internal_new(k, Simple)

from_io_error_RawKind(T, value) ==
    LET k == T.from_io_error_kind[io_kind(value)] IN
    IF IsSome(io_raw_os_error(value))
        THEN internal_new(T.from_raw_os_error[Unwrap(io_raw_os_error(value))],
                          RawOsError(Unwrap(io_raw_os_error(value))))
    ELSE IF IsSome(io_into_inner(value))
        THEN internal_new(k, Error(Unwrap(io_into_inner(value))))
    ELSE internal_new(k, Simple)

from_io_error_NoRaw(T, value) ==
    LET k == T.from_io_error_kind[io_kind(value)] IN
    IF IsSome(io_into_inner(value))
        THEN internal_new(k, Error(Unwrap(io_into_inner(value))))
    ELSE internal_new(k, Simple)

\* impl From<std::io::Error> for Error<K>
from_io_error(T, value) ==
    LET k == T.from_io_error_kind[io_kind(value)] IN
    IF IsSome(io_raw_os_error(value))
        THEN internal_new(k, RawOsError(Unwrap(io_raw_os_error(value))))
    ELSE IF IsSome(io_into_inner(value))
        THEN internal_new(k, Error(Unwrap(io_into_inner(value))))
    ELSE internal_new(k, Simple)

\* Faulty variants of From<Error<K>>: no placeholder is attached (the
\* platform error is built from the kind alone); the raw code is ignored.
into_io_error_NoPlaceholder(T, value) ==
    IF IsSome(raw_os_error(value))
        THEN io_from_raw_os_error(Unwrap(raw_os_error(value)))
    ELSE LET k == T.into_io_error_kind[kind(value)] IN
         IF IsSome(into_error(value))
             THEN io_new(k, Unwrap(into_error(value)))
         ELSE [repr |-> "Simple", kind |-> k]

into_io_error_KindOnly(T, value) ==
    LET k == T.into_io_error_kind[kind(value)] IN
    IF IsSome(into_error(value))
        THEN io_new(k, Unwrap(into_error(value)))
    ELSE io_new(k, StringError("(no context)"))

\* impl From<Error<K>> for std::io::Error
into_io_error(T, value) ==
    IF IsSome(raw_os_error(value))
        THEN io_from_raw_os_error(Unwrap(raw_os_error(value)))
    ELSE LET k == T.into_io_error_kind[kind(value)] IN
         IF IsSome(into_error(value))
             THEN io_new(k, Unwrap(into_error(value)))
         ELSE io_new(k, StringError("(no context)"))

----------------------------------------------------------------------------
(* The life of a container *)

NoRes == [op |-> "none", val |-> None]

Init ==
    /\ K \in KindTypes
    /\ err = None
    /\ io = None
    /\ ctor = "none"
    /\ res = NoRes
    /\ built = None
    /\ orig = None
    /\ src = None

\* A constructor returns e: a new container, owned by the caller.  A
\* behaviour follows one container and what it is converted into.
Construct(name, e) ==
    /\ ctor = "none"
    /\ err' = Some(e)
    /\ built' = Some(e)
    /\ ctor' = name
    /\ res' = NoRes
    /\ orig' = None
    /\ src' = None
    /\ UNCHANGED <<K, io>>

NewSimple == \E k \in K.kinds : Construct("new_simple", new_simple(k))

NewWithMessage ==
    \E k \in K.kinds, m \in Messages :
        Construct("new_with_message", new_with_message(k, m))

New == \E k \in K.kinds, p \in Payloads : Construct("new", new(k, p))

OtherSimple == Construct("other_simple", other_simple(K))

OtherWithMessage ==
    \E m \in Messages : Construct("other_with_message", other_with_message(K, m))

Other == \E p \in Payloads : Construct("other", other(K, p))

UncategorizedSimple == Construct("uncategorized_simple", uncategorized_simple(K))

UncategorizedWithMessage ==
    \E m \in Messages :
        Construct("uncategorized_with_message", uncategorized_with_message(K, m))

Uncategorized == \E p \in Payloads : Construct("uncategorized", uncategorized(K, p))

FromRawOsError ==
    \E c \in Codes : Construct("from_raw_os_error", from_raw_os_error(K, c))

FromIoErrorKind ==
    \E k \in IoKinds : Construct("from_io_error_kind", from_io_error_kind(K, k))

\* Error::from(x) for a platform error x the caller was handed
FromIoError ==
    \E x \in IoErrors :
        /\ ctor = "none"
        /\ err' = Some(from_io_error(K, x))
        /\ built' = err'
        /\ ctor' = "from_io_error"
        /\ res' = NoRes
        /\ orig' = None
        /\ src' = Some(x)
        /\ UNCHANGED <<K, io>>

\* Error::from(x) for the platform error an earlier conversion produced
FromIoErrorBack ==
    /\ IsSome(io)
    /\ err' = Some(from_io_error(K, Unwrap(io)))
    /\ built' = err'
    /\ ctor' = "from_io_error"
    /\ res' = NoRes
    /\ src' = io
    /\ io' = None
    /\ UNCHANGED <<K, orig>>

\* Faulty variant of a read-only operation: it takes the container by value.
Inspect_ByValue(op, val) ==
    /\ IsSome(err)
    /\ res' = [op |-> op, val |-> val]
    /\ orig' = err
    /\ err' = None
    /\ UNCHANGED <<K, io, ctor, built, src>>

\* The read-only operations borrow the container (&self).
Inspect(op, val) ==
    /\ IsSome(err)
    /\ res' = [op |-> op, val |-> val]
    /\ UNCHANGED <<K, err, io, ctor, built, orig, src>>

Kind == Inspect("kind", kind(Unwrap(err)))

RawOsErrorOf == Inspect("raw_os_error", raw_os_error(Unwrap(err)))

Fmt == Inspect("fmt", fmt(K, Unwrap(err)))

\* The extractions take the container by value (self): it is moved out.
Extract(op, val) ==
    /\ IsSome(err)
    /\ res' = [op |-> op, val |-> val]
    /\ orig' = err
    /\ err' = None
    /\ src' = None
    /\ UNCHANGED <<K, io, ctor, built>>

IntoError == Extract("into_error", into_error(Unwrap(err)))

IntoInner == Extract("into_inner", into_inner(Unwrap(err)))

\* std::io::Error::from(e) takes the container by value as well.
IntoIoError ==
    /\ IsSome(err)
    /\ io' = Some(into_io_error(K, Unwrap(err)))
    /\ res' = [op |-> "into_io_error", val |-> None]
    /\ orig' = err
    /\ err' = None
    /\ src' = None
    /\ UNCHANGED <<K, ctor, built>>

\* The caller drops the platform error it holds.
DropIoError ==
    /\ IsSome(io)
    /\ io' = None
    /\ UNCHANGED <<K, err, ctor, res, built, orig, src>>

Next ==
    \/ NewSimple
    \/ NewWithMessage
    \/ New
    \/ OtherSimple
    \/ OtherWithMessage
    \/ Other
    \/ UncategorizedSimple
    \/ UncategorizedWithMessage
    \/ Uncategorized
    \/ FromRawOsError
    \/ FromIoErrorKind
    \/ FromIoError
    \/ FromIoErrorBack
    \/ Kind
    \/ RawOsErrorOf
    \/ Fmt
    \/ IntoError
    \/ IntoInner
    \/ IntoIoError
    \/ DropIoError

Spec == Init /\ [][Next]_vars

----------------------------------------------------------------------------
(* Shorthands for the properties *)

E == Unwrap(err)
O == Unwrap(orig)
X == Unwrap(io)
S == Unwrap(src)

\* io is the platform error the conversion of orig returned
ConvertedToIo == IsSome(io) /\ IsSome(orig)

\* err is the container the conversion of the platform error src returned
ConvertedFromIo == IsSome(err) /\ IsSome(src) /\ ctor = "from_io_error"

\* err is orig after a conversion to the platform error src and back
RoundTripped == ConvertedFromIo /\ IsSome(orig)

----------------------------------------------------------------------------
(* C1 *)

\* C1, as stated: converting Error::uncategorized_simple() to the platform
\* error yields a payload-less platform error whose text is "(no context)".
C1_AsStated ==
    (ctor = "uncategorized_simple" /\ ConvertedToIo) =>
        /\ io_into_inner(X) = None
        /\ io_fmt(X) = "(no context)"

\* C1, amended: converting Error::uncategorized_simple() to the platform
\* error yields a platform error classified by K's to-platform-kind mapping
\* of K::uncategorized(), with no raw code, whose payload is the placeholder
\* text and whose text is exactly "(no context)".
C1_PlaceholderPayload ==
    (ctor = "uncategorized_simple" /\ ConvertedToIo) =>
        /\ io_fmt(X) = "(no context)"
        /\ io_into_inner(X) = Some(StringError("(no context)"))
        /\ io_raw_os_error(X) = None
        /\ io_kind(X) = K.into_io_error_kind[K.uncategorized]

C1_Witness ==
    /\ ctor = "uncategorized_simple"
    /\ ConvertedToIo
    /\ O = [kind |-> K.uncategorized, payload |-> Simple]
    /\ io_fmt(X) = "(no context)"

----------------------------------------------------------------------------
(* C2 *)

\* The payload the platform error must carry for a container without a raw
\* code, by the container's payload shape.
C2_ExpectedPayload(e) ==
    CASE e.payload.shape = "Error" -> e.payload.error
      [] e.payload.shape = "Message" -> StringError(e.payload.msg)
      [] e.payload.shape = "Simple" -> StringError("(no context)")

\* C2: a container with a raw code c converts to the platform error built
\* from c alone, classified by the platform's decoding of c; any other
\* container converts to a platform error classified by
\* K::into_io_error_kind(kind) that always carries a payload: the boxed
\* payload, the lifted message or the placeholder "(no context)".
C2_IntoIoError ==
    ConvertedToIo =>
        IF O.payload.shape = "RawOsError"
            THEN /\ X = [repr |-> "Os", code |-> O.payload.code]
                 /\ io_kind(X) = decode_error_kind(O.payload.code)
                 /\ io_raw_os_error(X) = Some(O.payload.code)
            ELSE /\ io_kind(X) = K.into_io_error_kind[O.kind]
                 /\ io_raw_os_error(X) = None
                 /\ io_into_inner(X) = Some(C2_ExpectedPayload(O))

\* a raw code whose platform classification differs from what K's
\* to-platform-kind mapping gives for the container's kind
C2_Witness ==
    /\ ConvertedToIo
    /\ O.payload.shape = "RawOsError"
    /\ io_kind(X) # K.into_io_error_kind[O.kind]

----------------------------------------------------------------------------
(* C3 *)

\* C3: a platform error x converts to a container whose kind is
\* K::from_io_error_kind(x.kind()) and whose payload is RawCode(c) if x
\* carries a raw code c, else Boxed(p) if x carries an inner payload p, else
\* Empty; a raw code wins over an inner payload.
C3_FromIoError ==
    ConvertedFromIo =>
        /\ E.kind = K.from_io_error_kind[io_kind(S)]
        /\ E.payload =
               IF IsSome(io_raw_os_error(S))
                   THEN [shape |-> "RawOsError", code |-> Unwrap(io_raw_os_error(S))]
               ELSE IF IsSome(io_into_inner(S))
                   THEN [shape |-> "Error", error |-> Unwrap(io_into_inner(S))]
               ELSE [shape |-> "Simple"]
        /\ (IsSome(io_raw_os_error(S)) /\ IsSome(io_into_inner(S))) =>
               E.payload.shape = "RawOsError"

C3_Witness ==
    /\ ConvertedFromIo
    /\ S.repr = "Custom"
    /\ E.payload = [shape |-> "Error", error |-> S.error]
    /\ E.kind = K.from_io_error_kind[S.kind]

----------------------------------------------------------------------------
(* C4 *)

\* C4, as stated: for every kind type K, a platform error built from raw
\* code c converts to a container e with e.raw_os_error() = Some(c) and
\* e.kind() = K::from_raw_os_error(c).
C4_AsStated ==
    (ConvertedFromIo /\ S.repr = "Os") =>
        /\ raw_os_error(E) = Some(S.code)
        /\ kind(E) = K.from_raw_os_error[S.code]

\* C4, amended: a platform error built from raw code c converts to a
\* container e with e.raw_os_error() = Some(c) and e.kind() equal to
\* K::from_io_error_kind of the platform's classification of c; that is
\* K::from_raw_os_error(c) for std::io::ErrorKind, and for any K whose
\* raw-OS mapping agrees with its from-platform-kind mapping on c.
C4_KindFromClassification ==
    (ConvertedFromIo /\ S.repr = "Os") =>
        /\ raw_os_error(E) = Some(S.code)
        /\ kind(E) = K.from_io_error_kind[decode_error_kind(S.code)]
        /\ K.name = "std::io::ErrorKind" => kind(E) = K.from_raw_os_error[S.code]
        /\ K.from_raw_os_error[S.code] = K.from_io_error_kind[decode_error_kind(S.code)]
               => kind(E) = K.from_raw_os_error[S.code]

\* the spec's scenario: raw code 28 and std::io::ErrorKind
C4_Witness ==
    /\ ConvertedFromIo
    /\ S = [repr |-> "Os", code |-> 28]
    /\ K.name = "std::io::ErrorKind"
    /\ raw_os_error(E) = Some(28)
    /\ kind(E) = "StorageFull"

----------------------------------------------------------------------------
(* C5 *)

\* K's from- and to-platform-kind mappings are mutually inverse on the
\* platform classification d.
MutuallyInverseOn(T, d) ==
    /\ T.into_io_error_kind[T.from_io_error_kind[d]] = d
    /\ \A k \in T.kinds : T.into_io_error_kind[k] = d => T.from_io_error_kind[d] = k

\* K's raw-OS mapping agrees with its from-platform-kind mapping on code c.
RawAgreesOn(T, c) ==
    T.from_raw_os_error[c] = T.from_io_error_kind[decode_error_kind(c)]

\* C5, as stated: a container with payload RawCode(c), converted to a
\* platform error and back, has raw_os_error() = Some(c) and the kind it
\* had, whenever K's from- and to-platform-kind mappings are mutually
\* inverse on the classification the platform derives from c.
C5_AsStated ==
    (RoundTripped /\ O.payload.shape = "RawOsError") =>
        /\ raw_os_error(E) = Some(O.payload.code)
        /\ MutuallyInverseOn(K, decode_error_kind(O.payload.code))
               => kind(E) = kind(O)

\* C5, amended: a container with payload RawCode(c), converted to a platform
\* error and back, has raw_os_error() = Some(c); it has the kind it had
\* whenever K's from- and to-platform-kind mappings are mutually inverse on
\* the classification the platform derives from c and K's raw-OS mapping
\* agrees with the from-platform-kind mapping on c.
C5_RoundTripRawCode ==
    (RoundTripped /\ O.payload.shape = "RawOsError") =>
        /\ raw_os_error(E) = Some(O.payload.code)
        /\ (/\ MutuallyInverseOn(K, decode_error_kind(O.payload.code))
            /\ RawAgreesOn(K, O.payload.code))
               => kind(E) = kind(O)

\* a downstream kind type that meets the condition, a container built by
\* from_raw_os_error
C5_Witness ==
    /\ RoundTripped
    /\ K.name = "UserKind"
    /\ O = [kind |-> K.from_raw_os_error[28], payload |-> RawOsError(28)]
    /\ MutuallyInverseOn(K, decode_error_kind(28))
    /\ RawAgreesOn(K, 28)
    /\ E = O

----------------------------------------------------------------------------
(* C6 *)

\* C6: a container with a Message payload m and kind k, converted to a
\* platform error and back, has a Boxed payload (the lifted message), so
\* into_inner() is present on it though absent on the original, and its
\* kind is K::from_io_error_kind(K::into_io_error_kind(k)).
C6_RoundTripMessage ==
    (RoundTripped /\ O.payload.shape = "Message") =>
        /\ E.payload.shape = "Error"
        /\ E.payload.error = [type |-> "StringError", text |-> O.payload.msg]
        /\ into_inner(O) = None
        /\ into_inner(E) = Some([type |-> "StringError", text |-> O.payload.msg])
        /\ kind(E) = K.from_io_error_kind[K.into_io_error_kind[kind(O)]]

\* a kind that is not derivable from its platform classification is lost
C6_Witness ==
    /\ RoundTripped
    /\ O.payload.shape = "Message"
    /\ E.payload.shape = "Error"
    /\ kind(E) # kind(O)

----------------------------------------------------------------------------
(* C7 *)

MessageCtors ==
    {"new_with_message", "other_with_message", "uncategorized_with_message"}

\* C7: into_error() returns a boxed error object exactly when the payload is
\* Boxed (that object) or Message (the lifted message), and None for Empty
\* and RawCode; into_inner() returns the boxed object exactly when the
\* payload is Boxed, and None for Empty, RawCode and Message.  For a
\* container built with a message into_inner() is None and into_error() is
\* present.
C7_Extraction ==
    /\ res.op = "into_error" =>
           res.val = CASE O.payload.shape = "Error" -> <<O.payload.error>>
                       [] O.payload.shape = "Message" ->
                              <<[type |-> "StringError", text |-> O.payload.msg]>>
                       [] OTHER -> <<>>
    /\ res.op = "into_inner" =>
           res.val = IF O.payload.shape = "Error" THEN <<O.payload.error>> ELSE <<>>
    /\ (IsSome(err) /\ ctor \in MessageCtors) =>
           /\ into_inner(E) = None
           /\ IsSome(into_error(E))
    /\ (res.op = "into_inner" /\ ctor \in MessageCtors) => res.val = None
    /\ (res.op = "into_error" /\ ctor \in MessageCtors) => IsSome(res.val)

C7_Witness ==
    /\ res.op = "into_error"
    /\ ctor = "new_with_message"
    /\ O.payload = [shape |-> "Message", msg |-> "disk full"]
    /\ res.val = Some([type |-> "StringError", text |-> "disk full"])

----------------------------------------------------------------------------
(* C8 *)

\* the decimal text of the codes the model draws
C8_CodeText(c) == CASE c = -1 -> "-1" [] c = 2 -> "2" [] c = 28 -> "28"

\* C8: the Display text of a container is the kind's own Display text
\* followed by nothing (Empty), " (raw os error {code})" (RawCode),
\* ": {message}" (Message) or ": {payload's text}" (Boxed);
\* other_with_message("disk full") formats as the text of K::OTHER followed
\* by ": disk full".
C8_Display ==
    (res.op = "fmt" /\ IsSome(err)) =>
        /\ E.payload.shape = "Simple" => res.val = K.fmt[E.kind]
        /\ E.payload.shape = "RawOsError" =>
               res.val = K.fmt[E.kind] \o " (raw os error "
                             \o C8_CodeText(E.payload.code) \o ")"
        /\ E.payload.shape = "Message" =>
               res.val = K.fmt[E.kind] \o ": " \o E.payload.msg
        /\ E.payload.shape = "Error" =>
               res.val = K.fmt[E.kind] \o ": " \o E.payload.error.text
        /\ (ctor = "other_with_message" /\ E.payload.msg = "disk full") =>
               res.val = K.fmt[K.other] \o ": disk full"

C8_Witness ==
    /\ res.op = "fmt"
    /\ IsSome(err)
    /\ ctor = "other_with_message"
    /\ K.name = "std::io::ErrorKind"
    /\ res.val = "other error: disk full"

----------------------------------------------------------------------------
(* C9 *)

\* the constructors and conversions that attach no raw code
NoCodeCtors ==
    {"new_simple", "new_with_message", "new",
     "other_simple", "other_with_message", "other",
     "uncategorized_simple", "uncategorized_with_message", "uncategorized",
     "from_io_error_kind"}

\* C9: raw_os_error() returns Some(c) exactly when the payload is
\* RawCode(c): from_raw_os_error(c).raw_os_error() = Some(c) for every code
\* c, and it returns None for every container built by the simple, message
\* and payload constructors and by conversion from a platform error kind,
\* whatever a Message or Boxed payload holds.
C9_RawOsError ==
    /\ \A c \in Codes : raw_os_error(from_raw_os_error(K, c)) = Some(c)
    /\ (res.op = "raw_os_error" /\ IsSome(err)) =>
           /\ \A c \in Codes :
                  res.val = <<c>> <=> E.payload = [shape |-> "RawOsError", code |-> c]
           /\ E.payload.shape # "RawOsError" => res.val = <<>>
           /\ ctor = "from_raw_os_error" => IsSome(res.val)
           /\ ctor \in NoCodeCtors => res.val = <<>>

C9_Witness ==
    /\ res.op = "raw_os_error"
    /\ ctor = "from_raw_os_error"
    /\ IsSome(err)
    /\ res.val = Some(28)

----------------------------------------------------------------------------
(* C10 *)

ReadOps == {"kind", "raw_os_error", "fmt"}
ConsumeOps == {"into_error", "into_inner", "into_io_error"}

\* what a read-only operation returns on container e
C10_Reads(op, e) ==
    CASE op = "kind" -> e.kind
      [] op = "raw_os_error" ->
             IF e.payload.shape = "RawOsError" THEN <<e.payload.code>> ELSE <<>>
      [] op = "fmt" -> fmt(K, e)

\* one step of the container's life
C10_Step ==
    \* a live container is the one its constructor returned
    /\ IsSome(err') => err' = built'
    \* a read-only operation leaves the container as it was and returns what
    \* the constructed container determines
    /\ (res' # res /\ res'.op \in ReadOps) =>
           /\ IsSome(err)
           /\ err' = err
           /\ built' = built
           /\ res'.val = C10_Reads(res'.op, Unwrap(built))
    \* the life of a container ends only by an extraction or by conversion
    \* to a platform error, which moves it out
    /\ (IsSome(err) /\ err' # err) =>
           /\ err' = None
           /\ orig' = err
           /\ res'.op \in ConsumeOps
    /\ (res' # res /\ res'.op \in ConsumeOps) =>
           /\ IsSome(err)
           /\ err' = None
    \* nothing is applied to a container that was moved out
    /\ (err = None /\ ctor # "none") =>
           \/ res' = res
           \/ res' = NoRes /\ ctor' = "from_io_error" /\ IsSome(io)

\* C10: between construction and consumption a container's kind and payload
\* are those its constructor fixed, whatever read-only operations are
\* applied and however often, so each returns the same result every time;
\* only into_error(), into_inner() or the conversion to a platform error
\* ends the container's life, and does so once.
C10_Immutable == [][C10_Step]_vars

C10_Witness ==
    /\ res.op = "into_inner"
    /\ err = None
    /\ IsSome(built)
    /\ orig = built
    /\ built = Some([kind |-> K.other, payload |-> Error([type |-> "ParseError", text |-> "bad digit"])])

====
